---------------------------- MODULE Spec2Model ----------------------------
(***************************************************************************)
(* A model of mini-apt: the record parser, the resolver, the index fetcher *)
(* the download engine and the mirror loop.                                *)
(*                                                                         *)
(* Text is modelled character by character: a string is a sequence of      *)
(* one-character strings, so that line splitting, the "Key: Value" split   *)
(* and the parse of Size are computed as the code computes them.           *)
(* A URL is the sequence of its '/'-separated segments.                    *)
(***************************************************************************)
EXTENDS Integers, Sequences, FiniteSets, TLC

VARIABLES
    pc,          \* position of the operation under check
    content,     \* parse_packages_file: the index text given to the parser
    stanzas,     \* the stanzas the index text was written from (ghost)
    packages,    \* the HashMap<String, PackageInfo> held by the caller
    emitted,     \* the records the parser inserted, in order (history)
    query,       \* find_package: [name, arch] of the lookup
    found,       \* find_package: None or Some(record)
    downloads,   \* download_packages: the (url, root_dir, expected_md5) tasks
    dl,          \* per task: position, result, received content, file operation
    batch,       \* download_packages: None while pending, then Some(result)
    fs,          \* the file system: path -> directory or file with its bytes
    fs0,         \* the file system before the call (history)
    requests,    \* the URLs of the HTTP GETs sent so far, in order (history)
    fetch,       \* download_packages_file: arguments, loop position, buffer, result
    config,      \* the InstallConfig of the install
    mirror_ix,   \* the install loop: index in config.mirrors of the current mirror
    attempts,    \* the install loop: the mirrors tried and how each ended (history)
    exit_code    \* None while main runs, then Some(status of the process)

parseVars == <<content, stanzas, packages, emitted, query, found>>
dlVars == <<downloads, dl, batch, fs, fs0>>
installVars == <<config, mirror_ix, attempts, exit_code>>
vars == <<pc, content, stanzas, packages, emitted, query, found,
          downloads, dl, batch, fs, fs0, requests, fetch, config, mirror_ix, attempts,
          exit_code>>

(***************************************************************************)
(* Option<T>: None is the empty sequence, Some(x) the one-element sequence. *)
(***************************************************************************)
None == <<>>
Some(x) == <<x>>

(***************************************************************************)
(* HashMap: a function whose domain is the set of keys present.            *)
(***************************************************************************)
EmptyMap == [k \in {} |-> None]
\* a variant of insert that keeps the value already present
InsertKeepFirst(m, k, v) == [x \in (DOMAIN m) \cup {k} |-> IF x \in DOMAIN m THEN m[x] ELSE v]
Insert(m, k, v) == [x \in (DOMAIN m) \cup {k} |-> IF x = k THEN v ELSE m[x]]
Get(m, k) == IF k \in DOMAIN m THEN Some(m[k]) ELSE None

(***************************************************************************)
(* The field names read by create_package_info, and the NL character.      *)
(***************************************************************************)
NL == "\n"
K_Package == <<"P","a","c","k","a","g","e">>
K_Version == <<"V","e","r","s","i","o","n">>
K_Architecture == <<"A","r","c","h","i","t","e","c","t","u","r","e">>
K_Filename == <<"F","i","l","e","n","a","m","e">>
K_Size == <<"S","i","z","e">>
K_MD5sum == <<"M","D","5","s","u","m">>
K_SHA256 == <<"S","H","A","2","5","6">>

(***************************************************************************)
(* str::lines: split at "\n"; a "\r" directly before the "\n" belongs to   *)
(* the line end and not to the line; the last line needs no "\n" (and      *)
(* keeps a final "\r"), and a final "\n" opens no further line.            *)
(***************************************************************************)
CR == "\r"
Lines(s) ==
    LET \* the positions of the "\n" of s, in order
        ends == SelectSeq([j \in 1..Len(s) |-> j], LAMBDA j : s[j] = NL)
        start(k) == IF k = 1 THEN 1 ELSE ends[k - 1] + 1
        \* the last position of the line that ends at the "\n" at e
        last(k, e) == IF e - 1 >= start(k) /\ s[e - 1] = CR THEN e - 2 ELSE e - 1
        closed == [k \in 1..Len(ends) |-> SubSeq(s, start(k), last(k, ends[k]))]
    IN IF start(Len(ends) + 1) > Len(s) THEN closed
       ELSE Append(closed, SubSeq(s, start(Len(ends) + 1), Len(s)))

(***************************************************************************)
(* str::split_once(": "): split at the first ": "; None without one.       *)
(***************************************************************************)
SplitOnce(line) ==
    LET at == {k \in 1..(Len(line) - 1) : line[k] = ":" /\ line[k + 1] = " "}
    IN IF at = {} THEN None
       ELSE LET k == CHOOSE x \in at : \A y \in at : x <= y
            IN Some(<<SubSeq(line, 1, k - 1), SubSeq(line, k + 2, Len(line))>>)

(***************************************************************************)
(* str::parse::<u64>: an optional "+", then one or more decimal digits,    *)
(* value at most u64::MAX.  The value is kept as its canonical decimal     *)
(* digits (no sign, no leading zero), which is exact at any width.         *)
(***************************************************************************)
Digits == {"0","1","2","3","4","5","6","7","8","9"}
DigitVal(c) == CASE c = "0" -> 0 [] c = "1" -> 1 [] c = "2" -> 2 [] c = "3" -> 3
                 [] c = "4" -> 4 [] c = "5" -> 5 [] c = "6" -> 6 [] c = "7" -> 7
                 [] c = "8" -> 8 [] c = "9" -> 9
U64MaxDigits == <<"1","8","4","4","6","7","4","4","0","7","3","7","0","9","5","5","1","6","1","5">>
RECURSIVE StripZeros(_)
StripZeros(d) == IF Len(d) > 1 /\ d[1] = "0" THEN StripZeros(Tail(d)) ELSE d
\* a <= b for canonical digit strings
DecLeq(a, b) ==
    \/ Len(a) < Len(b)
    \/ /\ Len(a) = Len(b)
       /\ \/ a = b
          \/ \E k \in 1..Len(a) :
                /\ \A j \in 1..(k - 1) : a[j] = b[j]
                /\ DigitVal(a[k]) < DigitVal(b[k])
ParseU64(s) ==
    LET d == IF Len(s) > 1 /\ s[1] = "+" THEN Tail(s) ELSE s
    IN IF d = <<>> THEN None
       ELSE IF \E k \in 1..Len(d) : d[k] \notin Digits THEN None
       ELSE IF ~DecLeq(StripZeros(d), U64MaxDigits) THEN None
       ELSE Some(StripZeros(d))

(***************************************************************************)
(* PackageInfo::new                                                        *)
(***************************************************************************)
PackageInfo(package, version, architecture, filename, size, md5sum, sha256) ==
    [package |-> package, version |-> version, architecture |-> architecture,
     filename |-> filename, size |-> size, md5sum |-> md5sum, sha256 |-> sha256]

(***************************************************************************)
(* create_package_info: Err (None here) when a field is missing or Size    *)
(* does not parse; the `?` operators are tried in argument order.          *)
(***************************************************************************)
\* a variant that takes the two digests in the other order
create_package_info_swapped(package_name, info) ==
    IF {K_Version, K_Architecture, K_Filename, K_Size, K_MD5sum, K_SHA256} \subseteq DOMAIN info
       /\ ParseU64(info[K_Size]) # None
    THEN Some(PackageInfo(package_name, info[K_Version], info[K_Architecture],
                          info[K_Filename], ParseU64(info[K_Size])[1],
                          info[K_SHA256], info[K_MD5sum]))
    ELSE None
create_package_info(package_name, info) ==
    IF K_Version \notin DOMAIN info THEN None
    ELSE IF K_Architecture \notin DOMAIN info THEN None
    ELSE IF K_Filename \notin DOMAIN info THEN None
    ELSE IF K_Size \notin DOMAIN info THEN None
    ELSE IF ParseU64(info[K_Size]) = None THEN None
    ELSE IF K_MD5sum \notin DOMAIN info THEN None
    ELSE IF K_SHA256 \notin DOMAIN info THEN None
    ELSE Some(PackageInfo(package_name, info[K_Version], info[K_Architecture],
                          info[K_Filename], ParseU64(info[K_Size])[1],
                          info[K_MD5sum], info[K_SHA256]))

(***************************************************************************)
(* parse_packages_file: the loop body for one line, the step after the     *)
(* loop, and the whole function.                                           *)
(***************************************************************************)
ParseStart ==
    [packages |-> EmptyMap, emitted |-> <<>>,
     current_package |-> None, current_info |-> EmptyMap]

\* if let Some(name) = current_package.take() { if let Ok(info) = create(..) { insert } }
\* `emitted` records each insert; the code keeps no such list.
\* a variant in which a stanza that gives no record takes the record of its
\* name out of the mapping
FinishStanza_dropRemoves(st) ==
    IF st.current_package = None THEN st
    ELSE LET package_name == st.current_package[1]
             r == create_package_info(package_name, st.current_info)
         IN IF r = None
            THEN [st EXCEPT !.packages = [k \in DOMAIN @ \ {package_name} |-> @[k]],
                            !.current_package = None]
            ELSE [st EXCEPT !.packages = Insert(@, package_name, r[1]),
                            !.emitted = Append(@, r[1]),
                            !.current_package = None]
FinishStanza(st) ==
    IF st.current_package = None THEN st
    ELSE LET package_name == st.current_package[1]
             r == create_package_info(package_name, st.current_info)
         IN IF r = None THEN [st EXCEPT !.current_package = None]
            ELSE [st EXCEPT !.packages = Insert(@, package_name, r[1]),
                            !.emitted = Append(@, r[1]),
                            !.current_package = None]

\* a variant that keeps the fields of the stanza just ended
ParseLine_noClear(st, line) ==
    IF line = <<>> THEN FinishStanza(st)
    ELSE IF line[1] = " " THEN st
    ELSE LET kv == SplitOnce(line)
         IN IF kv = None THEN st
            ELSE [st EXCEPT !.current_package = IF kv[1][1] = K_Package THEN Some(kv[1][2])
                                                   ELSE @,
                            !.current_info = Insert(@, kv[1][1], kv[1][2])]
\* a variant in which a line that begins with a space ends the stanza
ParseLine_spaceEndsStanza(st, line) ==
    IF line = <<>> \/ line[1] = " " THEN [FinishStanza(st) EXCEPT !.current_info = EmptyMap]
    ELSE LET kv == SplitOnce(line)
         IN IF kv = None THEN st
            ELSE [st EXCEPT !.current_package = IF kv[1][1] = K_Package THEN Some(kv[1][2])
                                                   ELSE @,
                            !.current_info = Insert(@, kv[1][1], kv[1][2])]
ParseLine(st, line) ==
    IF line = <<>> THEN [FinishStanza(st) EXCEPT !.current_info = EmptyMap]
    ELSE IF line[1] = " " THEN st
    ELSE LET kv == SplitOnce(line)
         IN IF kv = None THEN st
            ELSE LET key == kv[1][1]
                     value == kv[1][2]
                 IN [st EXCEPT !.current_package = IF key = K_Package THEN Some(value)
                                                   ELSE @,
                               !.current_info = Insert(@, key, value)]

\* the loop over lines[lo..hi], in order, from the state st.  The range is
\* halved, and the state after the first half is computed before the second
\* half is entered, so that the evaluation nests to a depth of log(hi - lo)
\* and not once per line of the text.
TheOnly(S) == CHOOSE x \in S : TRUE
RECURSIVE ParseRange(_, _, _, _)
ParseRange(st, lines, lo, hi) ==
    IF lo > hi THEN st
    ELSE IF lo = hi THEN ParseLine(st, lines[lo])
    ELSE LET mid == (lo + hi) \div 2
         IN TheOnly({ParseRange(half, lines, mid + 1, hi) :
                        half \in {ParseRange(st, lines, lo, mid)}})
ParseLines(st, lines, i) == ParseRange(st, lines, i, Len(lines))

ParseRun(text) == FinishStanza(ParseLines(ParseStart, Lines(text), 1))
parse_packages_file(text) == ParseRun(text).packages

(***************************************************************************)
(* find_package: packages.get(name).filter(|p| p.architecture == arch)     *)
(***************************************************************************)
\* a variant without the architecture filter
find_package_anyArch(pkgs, name, arch) == Get(pkgs, name)
find_package(pkgs, name, arch) ==
    LET p == Get(pkgs, name)
    IN IF p # None /\ p[1].architecture = arch THEN p ELSE None


(***************************************************************************)
(* The download engine.                                                    *)
(*                                                                         *)
(* A path is the sequence of its components, a file's content a sequence   *)
(* of characters.  The file system maps the paths that exist to a          *)
(* directory or to a file with its bytes.                                  *)
(***************************************************************************)
Dir == [kind |-> "dir"]
File(data) == [kind |-> "file", data |-> data]
Cwd == << <<"w">> >>

\* the root directory <<>> always exists and is in no tree
IsDir(f, p) == p = <<>> \/ (p \in DOMAIN f /\ f[p].kind = "dir")
IsFile(f, p) == p \in DOMAIN f /\ f[p].kind = "file"

\* the place a path leads to: the component ".." leads to the parent
\* directory (from the root, to the root)
Dot == <<".">>
DotDot == <<".", ".">>
ResolvedNames(p) ==
    LET up(a, b) == Cardinality({j \in a..b : p[j] = DotDot})
        \* the names that no later ".." leads out of again
        kept == SelectSeq([k \in 1..Len(p) |-> k],
                          LAMBDA k : /\ p[k] # DotDot
                                     /\ \A m \in (k + 1)..Len(p) :
                                           2 * up(k + 1, m) <= m - k)
    IN [i \in 1..Len(kept) |-> p[kept[i]]]
Resolved(path) == TheOnly({ResolvedNames(p) : p \in {path}})

\* std::fs::create_dir_all works from the first prefix of the path that is
\* missing to the path itself.
\* the tree once the places the first n prefixes of p lead to are directories
MadeDirs(f, p, n) ==
    LET places == {ResolvedNames(SubSeq(p, 1, k)) : k \in 1..n} \ {<<>>}
    IN [x \in (DOMAIN f) \cup places |-> IF x \in DOMAIN f THEN f[x] ELSE Dir]
\* the prefixes of p that lead to a file
FilePrefixes(f, p) == {k \in 1..Len(p) : IsFile(f, ResolvedNames(SubSeq(p, 1, k)))}
\* create_dir_all without a failure of the operating system: Err at the first
\* prefix that leads to a file, with the directories made before it left in
\* the tree
CreateDirAll(f, path) ==
    TheOnly({IF FilePrefixes(f, p) = {}
             THEN [ok |-> TRUE, fs |-> MadeDirs(f, p, Len(p))]
             ELSE [ok |-> FALSE,
                   fs |-> MadeDirs(f, p, (CHOOSE k \in FilePrefixes(f, p) :
                                             \A j \in FilePrefixes(f, p) : k <= j) - 1)]
             : p \in {path}})
\* the trees create_dir_all can leave when it returns Err: it stops at a
\* prefix that leads to a file, or at any prefix before that one where the
\* operating system refuses
CreateDirAllErr(f, path) ==
    UNION {{MadeDirs(f, p, k - 1) :
               k \in {k \in 1..Len(p) : \A j \in FilePrefixes(f, p) : k <= j}}
           : p \in {path}}

\* File::create: the file is created, or truncated when it exists; Err (None)
\* when a prefix of the path leads to no directory or the path leads to one
FileCreate(f, path) ==
    TheOnly({IF /\ \A k \in 0..(Len(p) - 1) : IsDir(f, ResolvedNames(SubSeq(p, 1, k)))
                /\ ~IsDir(f, ResolvedNames(p))
             THEN Some(Insert(f, ResolvedNames(p), File(<<>>)))
             ELSE None : p \in {path}})

\* a write of `data` at the position `off` of a handle opened by
\* File::create, over what the file holds by then; a file that is shorter
\* than `off` is filled up with zero bytes
Nul == "NUL"
FileWrite(f, path, off, data) ==
    IF data = <<>> THEN f
    ELSE [f EXCEPT ![Resolved(path)] =
             File([k \in 1..off |-> IF k <= Len(@.data) THEN @.data[k] ELSE Nul]
                  \o data
                  \o SubSeq(@.data, off + Len(data) + 1, Len(@.data)))]

\* PathBuf::join: the empty name and the name "." add no component
Join(dir, name) == IF name \in {<<>>, Dot} THEN dir ELSE Append(dir, name)

\* root_dir.is_absolute() / current_dir.join(root_dir)
AbsoluteRootDir(root_dir) ==
    IF root_dir.absolute THEN root_dir.segs ELSE Cwd \o root_dir.segs

\* url.split('/'): the segments between the '/', the last one included
RECURSIVE SplitSlashFrom(_, _)
SplitSlashFrom(s, i) ==
    LET at == {j \in i..Len(s) : s[j] = "/"}
    IN IF at = {} THEN <<SubSeq(s, i, Len(s))>>
       ELSE LET j == CHOOSE x \in at : \A y \in at : x <= y
            IN <<SubSeq(s, i, j - 1)>> \o SplitSlashFrom(s, j + 1)
SplitSlash(s) == SplitSlashFrom(s, 1)

\* url.split('/').last(): split yields at least one segment
PackageName(url) == SplitSlash(url)[Len(SplitSlash(url))]
PackagePath(d) == Join(AbsoluteRootDir(d.root_dir), PackageName(d.url))

(***************************************************************************)
(* md5::compute on the bodies the servers of this model send, and          *)
(* format!("{:x}", digest): two lower-case hex digits per byte.            *)
(***************************************************************************)
BodyEmpty == <<>>
BodyA == <<"a">>
BodyABC == <<"a","b","c">>
BodyB == <<"b">>
Md5Compute(data) ==
    CASE data = BodyEmpty -> <<212, 29, 140, 217, 143, 0, 178, 4, 233, 128, 9, 152, 236, 248, 66, 126>>
      [] data = BodyA -> <<12, 193, 117, 185, 192, 241, 182, 168, 49, 195, 153, 226, 105, 119, 38, 97>>
      [] data = BodyABC -> <<144, 1, 80, 152, 60, 210, 79, 176, 214, 150, 63, 125, 40, 225, 127, 114>>
      [] data = BodyB -> <<146, 235, 95, 254, 230, 174, 47, 236, 58, 215, 28, 119, 117, 49, 87, 143>>
HexDigits == <<"0","1","2","3","4","5","6","7","8","9","a","b","c","d","e","f">>
RECURSIVE LowerHex(_)
LowerHex(bytes) ==
    IF bytes = <<>> THEN <<>>
    ELSE <<HexDigits[(Head(bytes) \div 16) + 1], HexDigits[(Head(bytes) % 16) + 1]>>
         \o LowerHex(Tail(bytes))

\* a variant of the digest check that accepts every digest
DigestMatches_always(actual_md5, expected_md5) == TRUE
\* if actual_md5 != expected_md5 { return Err(..) }
DigestMatches(actual_md5, expected_md5) == actual_md5 = expected_md5

(***************************************************************************)
(* Results.  An Err carries the kind of its message.                       *)
(***************************************************************************)
Ok == [ok |-> TRUE]
Err(kind) == [ok |-> FALSE, kind |-> kind]

(***************************************************************************)
(* download_package, one future per task.  Positions:                      *)
(*   "new"      not polled yet                                              *)
(*   "sending"  awaiting client.get(url).send()                            *)
(*   "reading"  awaiting response.bytes()                                  *)
(*   "creating" awaiting File::create                                      *)
(*   "done"     returned `result`                                          *)
(*   "dropped"  dropped by try_join_all before it returned                 *)
(* tokio runs a file operation on its blocking pool.  File::create awaits  *)
(* the operation.  write_all on a tokio File hands the buffer (up to 2 MiB *)
(* at a time) to the pool and returns; the code awaits no flush, so the    *)
(* write runs after download_package has returned and its outcome reaches  *)
(* nobody.  `op` is the task's operation on the pool: its kind and whether *)
(* it is queued, has succeeded or has failed.  An operation handed to the  *)
(* pool runs whether or not the future that asked for it still exists.     *)
(***************************************************************************)
NewTask == [pc |-> "new", result |-> None, content |-> None, op |-> None, off |-> 0]

\* tokio's File takes at most MaxBufSize bytes per write; the write is run on
\* the blocking pool, and the next write of the handle waits for it
MaxBufSize == 2097152
\* the part of its content task t hands over with the write at t.off
Chunk(t) ==
    SubSeq(t.content[1], t.off + 1,
           IF t.off + MaxBufSize < Len(t.content[1]) THEN t.off + MaxBufSize
           ELSE Len(t.content[1]))
\* the content of task t goes on after that part
MoreToWrite(t) == t.off + MaxBufSize < Len(t.content[1])

\* futures::future::try_join_all, polled.  Over at most JoinAllSmall
\* futures: an Err among the results ends it, Ok when every task has returned
\* Ok, else it is pending (None).  Over more futures the results are taken in
\* task order: the Err of a task ends it once every task before it has
\* returned Ok.
\* download_packages maps the Ok to () and wraps the Err message.
\* a variant that waits for all tasks and reports Ok whatever they returned
TryJoinAll_ignoreErr(d) ==
    IF \A i \in 1..Len(d) : d[i].pc = "done" THEN Some(Ok) ELSE None
JoinAllSmall == 30
TryJoinAll(d) ==
    LET failed == {i \in 1..Len(d) : d[i].pc = "done" /\ ~d[i].result[1].ok}
        \* the tasks whose result ends the batch with an Err
        ending == IF Len(d) <= JoinAllSmall THEN failed
                  ELSE {i \in failed : \A j \in 1..(i - 1) :
                                          d[j].pc = "done" /\ d[j].result[1].ok}
    IN IF ending # {}
       THEN LET i == CHOOSE x \in ending : \A y \in ending : x <= y
            IN Some([ok |-> FALSE, kind |-> "Failed to download packages",
                     cause |-> d[i].result[1]])
       ELSE IF \A i \in 1..Len(d) : d[i].pc = "done" THEN Some(Ok)
       ELSE None

\* when try_join_all returns, the futures that have not returned are dropped
DropRest(d) ==
    [i \in 1..Len(d) |-> IF d[i].pc = "done" THEN d[i] ELSE [d[i] EXCEPT !.pc = "dropped"]]

\* the state of the batch after one of its futures was polled
Polled(d) ==
    /\ batch' = TryJoinAll(d)
    /\ dl' = IF TryJoinAll(d) = None THEN d ELSE DropRest(d)

Return(i, r) == [dl EXCEPT ![i].pc = "done", ![i].result = Some(r)]

\* try_join_all polls every future once, in task order, before it first
\* returns Pending: nothing arrives from the network at a future before all
\* have started.  A future that fails within its first poll (Start) ends the
\* batch at once, and the futures after it are never polled.
AllStarted == \A j \in 1..Len(dl) : dl[j].pc # "new"

\* try_join_all over no future is ready at once
PollEmpty ==
    /\ pc = "download"
    /\ batch = None
    /\ downloads = <<>>
    /\ batch' = TryJoinAll(dl)
    /\ UNCHANGED <<pc, downloads, dl, fs, fs0, requests, fetch>>
    /\ UNCHANGED parseVars
    /\ UNCHANGED installVars

\* downloader.rs 64-87: the first poll of task i, up to send().await or to
\* the first error.  The futures are first polled in task order.
Start(i) ==
    /\ pc = "download"
    /\ batch = None
    /\ dl[i].pc = "new"
    /\ \A j \in 1..(i - 1) : dl[j].pc # "new"
    /\ \/ /\ Polled(Return(i, Err("Failed to get current directory")))
          /\ fs' = fs
          /\ requests' = requests
       \/ LET made == CreateDirAll(fs, AbsoluteRootDir(downloads[i].root_dir))
          IN \/ /\ Polled(Return(i, Err("Failed to create directory")))
                /\ fs' \in CreateDirAllErr(fs, AbsoluteRootDir(downloads[i].root_dir))
                /\ requests' = requests
             \/ /\ made.ok
                /\ fs' = made.fs
                /\ \/ /\ Polled(Return(i, Err("Failed to create HTTP client")))
                      /\ requests' = requests
                   \/ /\ Polled([dl EXCEPT ![i].pc = "sending"])
                      /\ requests' = Append(requests, downloads[i].url)
                   \* send() is ready with its error when first polled (a
                   \* request that never reaches the network)
                   \/ /\ Polled(Return(i, Err("Failed to send request")))
                      /\ requests' = Append(requests, downloads[i].url)
    /\ UNCHANGED <<pc, downloads, fs0, fetch>>
    /\ UNCHANGED parseVars
    /\ UNCHANGED installVars

\* downloader.rs 84-91: the response arrives, or the request fails
Response(i) ==
    /\ pc = "download"
    /\ batch = None
    /\ AllStarted
    /\ dl[i].pc = "sending"
    /\ \/ Polled(Return(i, Err("Failed to send request")))
       \/ Polled(Return(i, Err("Status")))
       \/ Polled([dl EXCEPT ![i].pc = "reading"])
    /\ UNCHANGED <<pc, downloads, fs, fs0, requests, fetch>>
    /\ UNCHANGED parseVars
    /\ UNCHANGED installVars

\* downloader.rs 93-110: the body arrives and is checked; on a match the
\* file is created on the blocking pool
Content(i) ==
    /\ pc = "download"
    /\ batch = None
    /\ AllStarted
    /\ dl[i].pc = "reading"
    /\ \/ Polled(Return(i, Err("Failed to get response content")))
       \/ \E data \in {BodyEmpty, BodyA, BodyABC, BodyB} :
             LET actual_md5 == LowerHex(Md5Compute(data))
             IN IF ~DigestMatches(actual_md5, downloads[i].expected_md5)
                THEN Polled([Return(i, Err("MD5 checksum mismatch"))
                                EXCEPT ![i].content = Some(data)])
                ELSE Polled([dl EXCEPT ![i].pc = "creating",
                                       ![i].content = Some(data),
                                       ![i].op = Some([kind |-> "create", state |-> "queued"])])
    /\ UNCHANGED <<pc, downloads, fs, fs0, requests, fetch>>
    /\ UNCHANGED parseVars
    /\ UNCHANGED installVars

\* the blocking pool runs a queued File::create
RunCreate(i) ==
    /\ dl[i].op = Some([kind |-> "create", state |-> "queued"])
    /\ LET made == FileCreate(fs, PackagePath(downloads[i]))
       IN \/ /\ made # None
             /\ fs' = made[1]
             /\ dl' = [dl EXCEPT ![i].op = Some([kind |-> "create", state |-> "ok"])]
          \/ /\ fs' = fs
             /\ dl' = [dl EXCEPT ![i].op = Some([kind |-> "create", state |-> "failed"])]
    /\ UNCHANGED <<pc, downloads, batch, fs0, requests, fetch>>
    /\ UNCHANGED parseVars
    /\ UNCHANGED installVars

\* downloader.rs 110-118: a file operation the task waits for has returned.
\* After File::create, write_all hands the content to the blocking pool, at
\* most MaxBufSize bytes at a time (nothing when it is empty).  It waits for
\* a write only to hand over the part after it, and then sees that write's
\* error; once the last part is handed over the function returns Ok.
Created(i) ==
    /\ pc = "download"
    /\ batch = None
    /\ AllStarted
    /\ dl[i].pc \in {"creating", "writing"}
    /\ dl[i].op # None
    /\ dl[i].op[1].state # "queued"
    /\ LET queued == Some([kind |-> "write", state |-> "queued"])
           off == IF dl[i].pc = "writing" THEN dl[i].off + MaxBufSize ELSE 0
       IN IF dl[i].op[1].state = "failed"
          THEN Polled([Return(i, Err(IF dl[i].pc = "writing" THEN "Failed to write file"
                                     ELSE "Failed to create file"))
                          EXCEPT ![i].op = None])
          ELSE IF dl[i].content[1] = <<>>
          THEN Polled([Return(i, Ok) EXCEPT ![i].op = None])
          ELSE IF MoreToWrite([dl[i] EXCEPT !.off = off])
          THEN Polled([dl EXCEPT ![i].pc = "writing", ![i].off = off, ![i].op = queued])
          ELSE Polled([Return(i, Ok) EXCEPT ![i].off = off, ![i].op = queued])
    /\ UNCHANGED <<pc, downloads, fs, fs0, requests, fetch>>
    /\ UNCHANGED parseVars
    /\ UNCHANGED installVars

\* the blocking pool runs a queued write: all of the part is written, or
\* the write fails after some of it (or none) is; the failure of the last
\* write of a task is reported to nobody
RunWrite(i) ==
    /\ dl[i].op = Some([kind |-> "write", state |-> "queued"])
    /\ \E part \in {Chunk(dl[i])} : \E n \in 0..Len(part) :
          /\ fs' = FileWrite(fs, PackagePath(downloads[i]), dl[i].off, SubSeq(part, 1, n))
          /\ dl' = [dl EXCEPT ![i].op = Some([kind |-> "write",
                                               state |-> IF n = Len(part) THEN "ok"
                                                         ELSE "failed"])]
    /\ UNCHANGED <<pc, downloads, batch, fs0, requests, fetch>>
    /\ UNCHANGED parseVars
    /\ UNCHANGED installVars

(***************************************************************************)
(* The batches under check.                                                *)
(***************************************************************************)
MaxTasks == 2

Md5A == LowerHex(Md5Compute(BodyA))
Md5ABC == LowerHex(Md5Compute(BodyABC))
Md5B == LowerHex(Md5Compute(BodyB))
\* the digest of BodyA written with upper-case hex digits
UpperHexDigits == <<"0","1","2","3","4","5","6","7","8","9","A","B","C","D","E","F">>
Md5AUpper == [k \in 1..Len(Md5A) |->
                 UpperHexDigits[CHOOSE n \in 1..16 : HexDigits[n] = Md5A[k]]]
UrlR == <<"h","/","r">>
UrlP == <<"h","/","p">>
UrlQ == <<"h","/","q">>
UrlP2 == <<"g","/","p">>
UrlP3 == <<"f","/","p">>
OutRel == [absolute |-> FALSE, segs |-> << <<"o">> >>]
OutAbs == [absolute |-> TRUE, segs |-> << <<"w">>, <<"o">> >>]
\* the root directory "/"
OutRoot == [absolute |-> TRUE, segs |-> <<>>]
\* "a/../o/p": over a directory that is missing, to where FsUsed has a file
OutUp == [absolute |-> FALSE, segs |-> << <<"a">>, DotDot, <<"o">>, <<"p">> >>]
Download(url, root_dir, expected_md5) ==
    [url |-> url, root_dir |-> root_dir, expected_md5 |-> expected_md5]
TaskChoices ==
    {Download(UrlP, OutRel, Md5A),
     Download(UrlQ, OutAbs, Md5ABC),
     Download(UrlP2, OutRel, Md5ABC),
     Download(UrlP3, OutRel, Md5B),
     Download(UrlQ, OutRoot, Md5A),
     Download(UrlR, OutUp, Md5A),
     Download(UrlR, OutRel, Md5AUpper)}
Batches == UNION {[1..n -> TaskChoices] : n \in 0..MaxTasks}

FsFresh == [x \in {Cwd} |-> Dir]
OldData == <<"o","l","d">>
FsUsed ==
    [x \in {Cwd, Cwd \o << <<"o">> >>, Cwd \o << <<"o">>, <<"p">> >>} |->
        IF Len(x) = 3 THEN File(OldData) ELSE Dir]

NoDownloads ==
    /\ downloads = <<>>
    /\ dl = <<>>
    /\ batch = None
    /\ fs = FsFresh
    /\ fs0 = FsFresh
    /\ requests = <<>>

NoFetch == [mirror |-> <<>>, arch |-> <<>>, step |-> "idle", next |-> 1,
            all_content |-> <<>>, got |-> <<>>, result |-> None]
NoConfig == [package_name |-> <<>>, mirrors |-> <<>>, architecture |-> <<>>,
             root_dir |-> [absolute |-> FALSE, segs |-> <<>>]]
NoInstall ==
    /\ fetch = NoFetch
    /\ config = NoConfig
    /\ mirror_ix = 0
    /\ attempts = <<>>
    /\ exit_code = None

InitDownload ==
    /\ pc = "download"
    /\ downloads \in Batches
    /\ dl = [i \in 1..Len(downloads) |-> NewTask]
    /\ batch = None
    /\ fs \in {FsFresh, FsUsed}
    /\ fs0 = fs
    /\ requests = <<>>
    /\ NoInstall
    /\ content = <<>>
    /\ stanzas = <<>>
    /\ packages = EmptyMap
    /\ emitted = <<>>
    /\ query = [name |-> <<>>, arch |-> <<>>]
    /\ found = None

NextDownload ==
    \/ PollEmpty
    \/ \E i \in 1..Len(downloads) :
          \/ Start(i)
          \/ Response(i)
          \/ Content(i)
          \/ RunCreate(i)
          \/ Created(i)
          \/ RunWrite(i)

SpecDownload == InitDownload /\ [][NextDownload]_vars

FileAt(f, path) == IF path \in DOMAIN f THEN Some(f[path]) ELSE None
Target(i) == Resolved(PackagePath(downloads[i]))
\* the places task j makes directories of
DirPlaces(j) ==
    {Resolved(SubSeq(AbsoluteRootDir(downloads[j].root_dir), 1, k)) :
        k \in 1..Len(AbsoluteRootDir(downloads[j].root_dir))}
\* no other task of the batch writes to the destination of task i or makes a
\* directory of it
SoleWriter(i) ==
    \A j \in (1..Len(downloads)) \ {i} :
        Target(j) # Target(i) /\ Target(i) \notin DirPlaces(j)
Mismatch(i) ==
    /\ dl[i].content # None
    /\ LowerHex(Md5Compute(dl[i].content[1])) # downloads[i].expected_md5

\* C1: a call whose received body has an MD5 other than the expected digest
\* returns the checksum failure, asks for no file operation, and leaves the
\* destination file as it was before the call (absent or with its old bytes).
C1_MismatchLeavesFile ==
    pc = "download" =>
        \A i \in 1..Len(dl) :
            Mismatch(i) =>
                /\ dl[i].pc = "done"
                /\ dl[i].result = Some(Err("MD5 checksum mismatch"))
                /\ dl[i].op = None
                /\ SoleWriter(i) => FileAt(fs, Target(i)) = FileAt(fs0, Target(i))

C1_Witness ==
    /\ pc = "download"
    /\ Len(dl) = 1
    /\ Mismatch(1)
    /\ dl[1].content = Some(BodyABC)
    /\ batch # None
    /\ FileAt(fs0, Target(1)) = Some(File(OldData))
    /\ FileAt(fs, Target(1)) = Some(File(OldData))

\* C2 as stated, for a call that no other task shares its destination with
\* and whose file operations are over: after download_package has returned
\* Ok, the destination file exists and holds the whole body, whose MD5 is the
\* expected digest.
C2_SuccessMeansFileWritten ==
    pc = "download" =>
        \A i \in 1..Len(dl) :
            ( /\ dl[i].pc = "done"
              /\ dl[i].result = Some(Ok)
              /\ SoleWriter(i)
              /\ dl[i].op # Some([kind |-> "write", state |-> "queued"]) )
            => /\ FileAt(fs, Target(i)) = Some(File(dl[i].content[1]))
               /\ LowerHex(Md5Compute(dl[i].content[1])) = downloads[i].expected_md5

\* C4 as stated: when the batch resolves with a task failed on its digest,
\* every other task has run to completion.
C4_OtherTasksRunToCompletion ==
    pc = "download" =>
        \A i \in 1..Len(dl) :
            (batch # None /\ dl[i].result = Some(Err("MD5 checksum mismatch")))
            => \A j \in 1..Len(dl) : dl[j].pc = "done"

\* C5: download_packages returns Ok exactly when every task returned Ok (the
\* empty batch included); as soon as a task returns an Err the batch returns
\* the Err that wraps it, which is the first and only one encountered (the
\* batches here have at most JoinAllSmall tasks).
Failed(i) == dl[i].pc = "done" /\ ~dl[i].result[1].ok
Succeeded(i) == dl[i].pc = "done" /\ dl[i].result[1].ok
C5_BatchOkIffAllTasksOk ==
    pc = "download" =>
        /\ (\E i \in 1..Len(dl) : Failed(i)) => (batch # None /\ ~batch[1].ok)
        /\ (Len(dl) > 0 /\ \A i \in 1..Len(dl) : Succeeded(i)) => batch = Some(Ok)
        /\ batch # None =>
              /\ batch[1].ok <=> \A i \in 1..Len(dl) : Succeeded(i)
              /\ ~batch[1].ok =>
                    \E i \in 1..Len(dl) :
                        /\ Failed(i)
                        /\ batch[1].cause = dl[i].result[1]
                        /\ \A j \in 1..Len(dl) : Failed(j) => j = i

C5_Witness ==
    /\ pc = "download"
    /\ Len(dl) = 2
    /\ Succeeded(1)
    /\ Failed(2)
    /\ batch # None
    /\ ~batch[1].ok
    /\ batch[1].cause = Err("Status")


(***************************************************************************)
(* Index texts for the parser.  A text is written from a list of stanzas;  *)
(* a stanza gives the values of its fields, the one required field it      *)
(* omits (None: it has all seven) and whether it carries further lines     *)
(* (an unknown field, a continuation line, a line without ": ").           *)
(***************************************************************************)
MaxStanzas == 3

Required == <<K_Package, K_Version, K_Architecture, K_Filename, K_Size, K_MD5sum, K_SHA256>>

\* sizes written in stanzas, and the number each denotes when it is a u64
Size10 == <<"1","0">>
Size007 == <<"0","0","7">>
SizeNotDecimal == <<"1","x">>
SizeTooBig == <<"9","9","9","9","9","9","9","9","9","9","9","9","9","9","9","9","9","9","9","9","9">>
SizeDenotes(s) == CASE s = Size10 -> Some(<<"1","0">>)
                    [] s = Size007 -> Some(<<"7">>)
                    [] OTHER -> None

Stanza(name, ver, arch, filename, size, md5, omit, extra) ==
    [name |-> name, ver |-> ver, arch |-> arch, filename |-> filename, size |-> size,
     md5 |-> md5, omit |-> omit, extra |-> extra]
\* a stanza whose Filename and MD5sum are written from its Version
Plain(name, ver, arch, size, omit, extra) ==
    Stanza(name, ver, arch, <<"f">> \o ver, size, <<"d">> \o ver, omit, extra)

StanzaChoices ==
    {Plain(<<"a">>, <<"1">>, <<"x">>, Size10, None, FALSE),
     Plain(<<"a">>, <<"2">>, <<"y">>, Size007, None, FALSE),
     Plain(<<"b">>, <<"1">>, <<"x">>, Size10, None, TRUE),
     Plain(<<"a">>, <<"3">>, <<"x">>, SizeNotDecimal, None, FALSE),
     Plain(<<"b">>, <<"3">>, <<"y">>, SizeTooBig, None, FALSE),
     Plain(<<>>, <<"5">>, <<"x">>, Size10, None, FALSE)}
    \cup {Plain(<<"a">>, <<"4">>, <<"x">>, Size10, Some(k), FALSE) : k \in 1..7}

\* the value a stanza gives to its k-th required field
FieldValue(d, k) ==
    CASE k = 1 -> d.name
      [] k = 2 -> d.ver
      [] k = 3 -> d.arch
      [] k = 4 -> d.filename
      [] k = 5 -> d.size
      [] k = 6 -> d.md5
      [] k = 7 -> <<"s">> \o d.ver

HasField(d, k) == d.omit # Some(k)

\* lines past the required ones; these and the line before them end "\r\n"
ExtraText ==
    <<"D","e","p",":"," ","c",CR,NL," ","m","o","r","e",CR,NL,"j","u","n","k",":","1",CR>>

\* the lines of one stanza, each but the last ended by NL
RECURSIVE FieldLines(_, _)
FieldLines(d, k) ==
    IF k > 7 THEN <<>>
    ELSE LET rest == FieldLines(d, k + 1)
             here == IF HasField(d, k)
                     THEN Required[k] \o <<":", " ">> \o FieldValue(d, k)
                     ELSE <<>>
             tail == IF k = 4 /\ d.extra
                     THEN (IF here = <<>> THEN ExtraText ELSE here \o <<CR, NL>> \o ExtraText)
                     ELSE here
         IN IF tail = <<>> THEN rest
            ELSE IF rest = <<>> THEN tail
            ELSE tail \o <<NL>> \o rest
StanzaText(d) == FieldLines(d, 1)

\* stanzas i..Len(ss), one empty line between two stanzas
RECURSIVE IndexText(_, _)
IndexText(ss, i) ==
    IF i > Len(ss) THEN <<>>
    ELSE IF i = Len(ss) THEN StanzaText(ss[i])
    ELSE StanzaText(ss[i]) \o <<NL, NL>> \o IndexText(ss, i + 1)

\* the line ends after the last stanza: none, one, or one and an empty line
Ending(n) == [j \in 1..n |-> NL]

StanzaLists == UNION {[1..n -> StanzaChoices] : n \in 0..MaxStanzas}

(***************************************************************************)
(* The parser under check: an index text is given, then parsed.            *)
(***************************************************************************)
NoQuery == [name |-> <<>>, arch |-> <<>>]

InitParse ==
    /\ pc = "parse"
    /\ stanzas \in StanzaLists
    /\ \E n \in 0..2 : content = IndexText(stanzas, 1) \o Ending(n)
    /\ packages = EmptyMap
    /\ emitted = <<>>
    /\ query = NoQuery
    /\ found = None
    /\ NoDownloads
    /\ NoInstall

Parse ==
    /\ pc = "parse"
    /\ packages' = parse_packages_file(content)
    /\ emitted' = ParseRun(content).emitted
    /\ pc' = "parsed"
    /\ UNCHANGED <<content, stanzas, query, found, requests, fetch>>
    /\ UNCHANGED dlVars
    /\ UNCHANGED installVars

NextParse == Parse

SpecParse == InitParse /\ [][NextParse]_vars


(***************************************************************************)
(* What the stanzas of the text say, without reference to the parser.      *)
(***************************************************************************)
WellFormed(d) == d.omit = None /\ SizeDenotes(d.size) # None
RecordOf(d) ==
    PackageInfo(FieldValue(d, 1), FieldValue(d, 2), FieldValue(d, 3), FieldValue(d, 4),
                SizeDenotes(d.size)[1], FieldValue(d, 6), FieldValue(d, 7))
WellFormedAt == {i \in 1..Len(stanzas) : WellFormed(stanzas[i])}
LastOfName(i) == \A j \in WellFormedAt : j > i => stanzas[j].name # stanzas[i].name
RECURSIVE RecordsFrom(_, _)
RecordsFrom(ss, i) ==
    IF i > Len(ss) THEN <<>>
    ELSE IF WellFormed(ss[i]) THEN <<RecordOf(ss[i])>> \o RecordsFrom(ss, i + 1)
    ELSE RecordsFrom(ss, i + 1)

\* C6 as stated: every stanza with the seven fields and a numeric Size has
\* exactly one record with its values in the result, so that the result
\* holds one record for each (name, architecture) pair of such stanzas.
C6_OneRecordPerNameAndArch ==
    pc = "parsed" =>
        \A i \in WellFormedAt :
            /\ Cardinality({k \in DOMAIN packages : packages[k] = RecordOf(stanzas[i])}) = 1
            /\ Cardinality({k \in DOMAIN packages :
                              /\ packages[k].package = stanzas[i].name
                              /\ packages[k].architecture = stanzas[i].arch}) = 1

\* C6 amended: the parser inserts exactly one record per well-formed stanza,
\* with that stanza's values, in text order; the result is keyed by name
\* alone, and holds for each name of a well-formed stanza the record of the
\* last well-formed stanza of that name.
C6_OneRecordPerName ==
    pc = "parsed" =>
        /\ emitted = RecordsFrom(stanzas, 1)
        /\ DOMAIN packages = {stanzas[i].name : i \in WellFormedAt}
        /\ \A i \in WellFormedAt :
              LastOfName(i) => packages[stanzas[i].name] = RecordOf(stanzas[i])

C6_Witness ==
    /\ pc = "parsed"
    /\ \E i, j \in WellFormedAt :
          /\ i < j
          /\ stanzas[i].name = stanzas[j].name
          /\ stanzas[i].arch # stanzas[j].arch
          /\ emitted = <<RecordOf(stanzas[i]), RecordOf(stanzas[j])>>
          /\ packages[stanzas[j].name] = RecordOf(stanzas[j])

\* C7: a stanza that lacks a required field, or whose Size is no u64, yields
\* no record (none of its values reaches an inserted record), and every
\* well-formed stanza after it still has its record inserted, and kept in
\* the result when it is the last of its name.
C7_MalformedStanzaSkipped ==
    pc = "parsed" =>
        \A i \in (1..Len(stanzas)) \ WellFormedAt :
            /\ \A k \in 1..Len(emitted) :
                  /\ emitted[k].version # FieldValue(stanzas[i], 2)
                  /\ emitted[k].filename # FieldValue(stanzas[i], 4)
                  /\ emitted[k].md5sum # FieldValue(stanzas[i], 6)
                  /\ emitted[k].sha256 # FieldValue(stanzas[i], 7)
            /\ \A j \in WellFormedAt :
                  j > i => /\ \E k \in 1..Len(emitted) : emitted[k] = RecordOf(stanzas[j])
                           /\ LastOfName(j) =>
                                 packages[stanzas[j].name] = RecordOf(stanzas[j])

C7_Witness ==
    /\ pc = "parsed"
    /\ Len(stanzas) = 3
    /\ WellFormedAt = {1, 3}
    /\ stanzas[2].omit = Some(2)
    /\ stanzas[2].name = stanzas[1].name
    /\ Len(emitted) = 2
    /\ packages[stanzas[3].name] = RecordOf(stanzas[3])
    /\ content[Len(content)] # NL

\* C8: when several well-formed stanzas declare one name, the result holds
\* for that name the record of the last of them, whatever the architectures.
C8_LastWriteWins ==
    pc = "parsed" =>
        \A i, j \in WellFormedAt :
            (i < j /\ stanzas[i].name = stanzas[j].name /\ LastOfName(j))
                => /\ packages[stanzas[j].name] = RecordOf(stanzas[j])
                   /\ Cardinality({k \in DOMAIN packages :
                                     packages[k].package = stanzas[j].name}) = 1

C8_Witness ==
    /\ pc = "parsed"
    /\ Len(stanzas) = 2
    /\ WellFormedAt = {1, 2}
    /\ stanzas[1].name = stanzas[2].name
    /\ stanzas[1].arch = <<"y">>
    /\ stanzas[2].arch = <<"x">>
    /\ packages[stanzas[2].name].architecture = <<"x">>
    /\ packages[stanzas[2].name].version = stanzas[2].ver

(***************************************************************************)
(* The resolver under check: a mapping and a lookup are given, then the    *)
(* lookup is made.  A mapping may hold any record under any key.           *)
(***************************************************************************)
SomeNames == {<<"a">>, <<"b">>}
SomeArchs == {<<"x">>, <<"y">>}
SomeRecords ==
    {PackageInfo(n, <<"1">>, a, <<"f">>, <<"1">>, <<"d">>, <<"s">>) :
        n \in SomeNames, a \in SomeArchs}
SomeMappings == UNION {[keys -> SomeRecords] : keys \in SUBSET SomeNames}

InitResolve ==
    /\ pc = "resolve"
    /\ packages \in SomeMappings
    /\ query \in [name : SomeNames \cup {<<"c">>}, arch : SomeArchs \cup {<<"z">>}]
    /\ found = None
    /\ content = <<>>
    /\ stanzas = <<>>
    /\ emitted = <<>>
    /\ NoDownloads
    /\ NoInstall

Resolve ==
    /\ pc = "resolve"
    /\ found' = find_package(packages, query.name, query.arch)
    /\ pc' = "resolved"
    /\ UNCHANGED <<content, stanzas, packages, emitted, query, requests, fetch>>
    /\ UNCHANGED dlVars
    /\ UNCHANGED installVars

NextResolve == Resolve

SpecResolve == InitResolve /\ [][NextResolve]_vars

\* C3: the lookup returns a record exactly when the mapping has an entry
\* under the name whose architecture is the one asked for, and then it
\* returns that entry.
C3_ResolveFiltersArchitecture ==
    pc = "resolved" =>
        /\ (found # None) <=> /\ query.name \in DOMAIN packages
                              /\ packages[query.name].architecture = query.arch
        /\ found # None => found = Some(packages[query.name])

C3_Witness ==
    /\ pc = "resolved"
    /\ query.name \in DOMAIN packages
    /\ packages[query.name].architecture # query.arch
    /\ found = None
    /\ \E n \in DOMAIN packages : packages[n].architecture = query.arch


(***************************************************************************)
(* The index fetcher: download_packages_file.                              *)
(***************************************************************************)
Components == << <<"m","a","i","n">>, <<"u","n","i","v","e","r","s","e">> >>

\* format!("{}/dists/focal/{}/binary-{}/Packages.gz", mirror, component, arch)
IndexUrl(mirror, component, arch) ==
    mirror \o <<"/","d","i","s","t","s","/","f","o","c","a","l","/">> \o component \o <<"/","b","i","n","a","r","y","-">> \o arch \o <<"/","P","a","c","k","a","g","e","s",".","g","z">>

\* the index texts the servers of this model hold
MirrorStanza(name, arch, md5) ==
    Stanza(name, <<"1">>, arch, <<"p","/">> \o name, Size10, md5, None, FALSE)
TextEmpty == <<>>
Arm64 == <<"a","r","m","6","4">>
Amd64 == <<"a","m","d","6","4">>
TextArm == StanzaText(MirrorStanza(<<"a">>, Arm64, Md5A)) \o <<NL>>
TextAmd == StanzaText(MirrorStanza(<<"a">>, Amd64, Md5ABC))
\* a text whose last line has no line end
TextB == StanzaText(MirrorStanza(<<"b">>, Arm64, Md5ABC))
\* a mirror that keeps the artifact of package a under another path
TextArm2 ==
    StanzaText(Stanza(<<"a">>, <<"2">>, Arm64, <<"q","/","a">>, Size10, Md5ABC, None, FALSE))
        \o <<NL>>
IndexTexts == {TextEmpty, TextArm, TextAmd, TextB, TextArm2}

\* what one component's GET can come to: a failure of send(), a status that
\* is no success, a failure of bytes(), a body that does not decompress to
\* text, or a body that decompresses to `text`
Failure(kind) == [ok |-> FALSE, kind |-> kind]
Text(t) == [ok |-> TRUE, text |-> t]
ComponentOutcomes ==
    {Failure(k) : k \in {"send", "status", "bytes", "decompress"}}
        \cup {Text(t) : t \in IndexTexts}

\* package_info.rs 77-85: a component's outcome and the buffer
\* a variant that does not end a component's text with a line end
Accumulate_noNewline(all_content, outcome) ==
    IF outcome.ok THEN all_content \o outcome.text ELSE all_content
Accumulate(all_content, outcome) ==
    IF outcome.ok THEN all_content \o outcome.text \o <<NL>> ELSE all_content

\* package_info.rs 95-99
FetchResult(all_content) ==
    IF all_content = <<>>
    THEN Err("Failed to download Packages.gz from any component")
    ELSE [ok |-> TRUE, text |-> all_content]

StartFetch(mirror, arch) ==
    [mirror |-> mirror, arch |-> arch, step |-> "client", next |-> 1,
     all_content |-> <<>>, got |-> <<>>, result |-> None]

\* package_info.rs 60-66: the buffer and the HTTP client
FetchClient ==
    /\ pc = "fetch"
    /\ fetch.step = "client"
    /\ \/ /\ fetch' = [fetch EXCEPT !.step = "returned",
                                    !.result = Some(Err("Failed to create HTTP client"))]
          /\ pc' = "fetched"
       \/ /\ fetch' = [fetch EXCEPT !.step = "loop"]
          /\ pc' = pc
    /\ UNCHANGED <<requests>>
    /\ UNCHANGED parseVars
    /\ UNCHANGED dlVars
    /\ UNCHANGED installVars

\* the turn of the loop for the component ends with `outcome`
TurnEnds(outcome) ==
    [fetch EXCEPT !.step = "loop",
                  !.next = @ + 1,
                  !.all_content = Accumulate(@, outcome),
                  !.got = Append(@, outcome)]

\* package_info.rs 68-72: a turn of the loop starts; the request is sent and
\* the function waits in send().await
FetchSend ==
    /\ pc = "fetch"
    /\ fetch.step = "loop"
    /\ fetch.next <= Len(Components)
    /\ requests' = Append(requests, IndexUrl(fetch.mirror, Components[fetch.next], fetch.arch))
    /\ fetch' = [fetch EXCEPT !.step = "sending"]
    /\ UNCHANGED <<pc>>
    /\ UNCHANGED parseVars
    /\ UNCHANGED dlVars
    /\ UNCHANGED installVars

\* package_info.rs 72-74, 90-91: send() returns; with a success status the
\* function waits in bytes().await
FetchResponse ==
    /\ pc = "fetch"
    /\ fetch.step = "sending"
    /\ \/ \E k \in {"send", "status"} : fetch' = TurnEnds(Failure(k))
       \/ fetch' = [fetch EXCEPT !.step = "reading"]
    /\ UNCHANGED <<pc, requests>>
    /\ UNCHANGED parseVars
    /\ UNCHANGED dlVars
    /\ UNCHANGED installVars

\* package_info.rs 74-88: bytes() returns and the body is decompressed
FetchBody ==
    /\ pc = "fetch"
    /\ fetch.step = "reading"
    /\ \E outcome \in ComponentOutcomes \ {Failure("send"), Failure("status")} :
          fetch' = TurnEnds(outcome)
    /\ UNCHANGED <<pc, requests>>
    /\ UNCHANGED parseVars
    /\ UNCHANGED dlVars
    /\ UNCHANGED installVars

\* package_info.rs 95-99: after the loop
FetchReturn ==
    /\ pc = "fetch"
    /\ fetch.step = "loop"
    /\ fetch.next > Len(Components)
    /\ fetch' = [fetch EXCEPT !.step = "returned",
                              !.result = Some(FetchResult(fetch.all_content))]
    /\ pc' = "fetched"
    /\ UNCHANGED <<requests>>
    /\ UNCHANGED parseVars
    /\ UNCHANGED dlVars
    /\ UNCHANGED installVars

Mirror(k) == <<"m", HexDigits[k + 1]>>

InitFetch ==
    /\ pc = "fetch"
    /\ \E k \in 1..2, arch \in {Arm64, Amd64} : fetch = StartFetch(Mirror(k), arch)
    /\ config = NoConfig
    /\ mirror_ix = 0
    /\ attempts = <<>>
    /\ exit_code = None
    /\ NoDownloads
    /\ content = <<>>
    /\ stanzas = <<>>
    /\ packages = EmptyMap
    /\ emitted = <<>>
    /\ query = [name |-> <<>>, arch |-> <<>>]
    /\ found = None

NextFetch == FetchClient \/ FetchSend \/ FetchResponse \/ FetchBody \/ FetchReturn

SpecFetch == InitFetch /\ [][NextFetch]_vars

\* the texts of the components that succeeded, in order, each with the line
\* end the fetcher puts after it
RECURSIVE Retrieved(_, _)
Retrieved(got, i) ==
    IF i > Len(got) THEN <<>>
    ELSE IF got[i].ok THEN got[i].text \o <<NL>> \o Retrieved(got, i + 1)
    ELSE Retrieved(got, i + 1)
IndexUnavailable == Err("Failed to download Packages.gz from any component")

\* C9 as stated: every call tries both components, main then universe, and
\* fails with the index-unavailable error exactly when no component
\* succeeded; otherwise it returns the successful components' texts.
C9_FailsIffNoComponent ==
    pc = "fetched" =>
        /\ requests = [i \in 1..2 |-> IndexUrl(fetch.mirror, Components[i], fetch.arch)]
        /\ (fetch.result = Some(IndexUnavailable))
              <=> (\A i \in 1..Len(fetch.got) : ~fetch.got[i].ok)
        /\ (\E i \in 1..Len(fetch.got) : fetch.got[i].ok)
              => fetch.result = Some([ok |-> TRUE, text |-> Retrieved(fetch.got, 1)])

\* C9 amended: the same, for a call whose HTTP client was built; a call whose
\* client cannot be built returns that error and tries no component.
ClientBuilt == fetch.result # Some(Err("Failed to create HTTP client"))
C9_FailsIffNoComponentOnceClientBuilt ==
    pc = "fetched" =>
        IF ClientBuilt
        THEN /\ requests = [i \in 1..2 |-> IndexUrl(fetch.mirror, Components[i], fetch.arch)]
             /\ Len(fetch.got) = 2
             /\ (fetch.result = Some(IndexUnavailable))
                   <=> (\A i \in 1..2 : ~fetch.got[i].ok)
             /\ (\E i \in 1..2 : fetch.got[i].ok)
                   => fetch.result = Some([ok |-> TRUE, text |-> Retrieved(fetch.got, 1)])
        ELSE requests = <<>> /\ fetch.got = <<>>

C9_Witness ==
    /\ pc = "fetched"
    /\ fetch.got = <<Failure("decompress"), Text(TextEmpty)>>
    /\ fetch.result = Some([ok |-> TRUE, text |-> <<NL>>])
    /\ Len(requests) = 2


(***************************************************************************)
(* The install: InstallConfig::new, the loop of main over config.mirrors   *)
(* and UrlBuilder::build_package_urls.  Positions of main:                 *)
(*   "loop"      at the head of the for loop                               *)
(*   "fetch"     in download_packages_file                                 *)
(*   "fetched"   download_packages_file has returned                       *)
(*   "parsed"    parse_packages_file has returned                          *)
(*   "download"  in download_package or download_packages                  *)
(*   "exit"      the loop is over and main has returned                    *)
(***************************************************************************)
ValidArchitectures ==
    {<<"a","r","m","6","4">>, <<"x","8","6","_","6","4">>, <<"a","l","l">>, <<"a","m","d","6","4">>, <<"i","3","8","6">>, <<"a","r","m">>, <<"a","r","m","h","f">>, <<"p","p","c","6","4","e","l">>, <<"s","3","9","0","x">>}

StartsWith(s, prefix) == Len(s) >= Len(prefix) /\ SubSeq(s, 1, Len(prefix)) = prefix
AndroidNdk == <<"a","n","d","r","o","i","d","-","n","d","k">>
\* a variant that takes no name for one of the fixed-artifact family
IsNdk_never(name) == FALSE
IsNdk(name) == StartsWith(name, AndroidNdk)

\* url.rs 13-16: the two fixed tasks
Dummy == <<"d","u","m","m","y">>
NdkDownloads(root_dir) ==
    << Download(<<"h","t","t","p","s",":","/","/","d","l",".","g","o","o","g","l","e",".","c","o","m","/","a","n","d","r","o","i","d","/","r","e","p","o","s","i","t","o","r","y","/","a","n","d","r","o","i","d","-","n","d","k","-","r","2","6","b","-","d","a","r","w","i","n",".","d","m","g">>, root_dir, Dummy),
       Download(<<"h","t","t","p","s",":","/","/","d","l",".","g","o","o","g","l","e",".","c","o","m","/","a","n","d","r","o","i","d","/","r","e","p","o","s","i","t","o","r","y","/","a","n","d","r","o","i","d","-","n","d","k","-","r","2","6","b","-","d","a","r","w","i","n",".","z","i","p">>, root_dir, Dummy) >>

\* url.rs 38: format!("{}/{}", mirror, package_info.filename)
\* a variant that always asks the first mirror for the artifact
PackageUrl_firstMirror(mirror, filename) == <<"m", "1", "/">> \o filename
PackageUrl(mirror, filename) == mirror \o <<"/">> \o filename

\* main.rs 110-116: `true => break`, `false => continue`
\* a variant that goes on with the next mirror after a success, and one in
\* which a failed attempt ends the install, and one in which a failed attempt
\* leaves main waiting
AfterAttempt_waitOnFailure(ok) == IF ok THEN "exit" ELSE "waiting"
AfterAttempt_stopOnFailure(ok) == "exit"
AfterAttempt_neverBreak(ok) == "loop"
AfterAttempt(ok) == IF ok THEN "exit" ELSE "loop"

\* steps: the calls build_package_urls has made in this attempt, in order:
\* "fetch" download_packages_file, "parse" parse_packages_file, "resolve"
\* find_package, "download" download_package, "batch" download_packages;
\* batch: what download_packages returned, in an attempt that called it
Attempt(k, first) ==
    [mirror |-> k, result |-> "trying", why |-> "", batch |-> None,
     steps |-> <<first>>]
Entered(a, step) == [a EXCEPT ![Len(a)].steps = Append(@, step)]

\* build_package_urls has returned `ok`; a is the history up to the return
EndAttemptAfter(a, ok, why) ==
    /\ attempts' = [a EXCEPT ![Len(a)].result = IF ok THEN "ok" ELSE "failed",
                             ![Len(a)].why = why]
    /\ pc' = AfterAttempt(ok)
    /\ exit_code' = IF AfterAttempt(ok) = "exit" THEN Some(0) ELSE None
EndAttempt(ok, why) == EndAttemptAfter(attempts, ok, why)

\* main.rs 109-110 and url.rs 8-28: the next mirror, if any, and the entry
\* of build_package_urls; main.rs 117-135: main returns when the list is over
InstallLoop ==
    /\ pc = "loop"
    /\ IF mirror_ix < Len(config.mirrors)
       THEN /\ mirror_ix' = mirror_ix + 1
            /\ attempts' = Append(attempts,
                   Attempt(mirror_ix + 1,
                           IF IsNdk(config.package_name) THEN "batch" ELSE "fetch"))
            /\ exit_code' = exit_code
            /\ IF IsNdk(config.package_name)
               THEN /\ downloads' = NdkDownloads(config.root_dir)
                    /\ dl' = [i \in 1..2 |-> NewTask]
                    /\ batch' = None
                    /\ pc' = "download"
                    /\ fetch' = fetch
               ELSE /\ fetch' = StartFetch(config.mirrors[mirror_ix + 1], config.architecture)
                    /\ pc' = "fetch"
                    /\ UNCHANGED <<downloads, dl, batch>>
       ELSE /\ pc' = "exit"
            /\ exit_code' = Some(0)
            /\ UNCHANGED <<mirror_ix, attempts, downloads, dl, batch, fetch>>
    /\ UNCHANGED <<config, fs, fs0, requests>>
    /\ UNCHANGED parseVars

\* build_package_urls returns false: its locals (the index text, the
\* mapping, the record, the tasks) are dropped
DropLocals ==
    /\ fetch' = NoFetch
    /\ content' = <<>>
    /\ packages' = EmptyMap
    /\ query' = NoQuery
    /\ found' = None
    /\ downloads' = <<>>
    /\ dl' = <<>>
    /\ batch' = None

\* url.rs 31: parse_packages_file(&packages_content), tabulated over the
\* texts download_packages_file can return from the component outcomes
FetchableTexts ==
    {Accumulate(Accumulate(<<>>, o1), o2) : o1, o2 \in ComponentOutcomes}
ParsedIndex == [text \in FetchableTexts |-> parse_packages_file(text)]

\* url.rs 28-31 and 53-56: the outcome of download_packages_file, and
\* parse_packages_file on the text
InstallParse ==
    /\ pc = "fetched"
    /\ IF fetch.result[1].ok
       THEN /\ content' = fetch.result[1].text
            /\ packages' = ParsedIndex[fetch.result[1].text]
            /\ pc' = "parsed"
            /\ attempts' = Entered(attempts, "parse")
            /\ exit_code' = exit_code
            /\ UNCHANGED <<query, found, fetch>>
            /\ UNCHANGED <<downloads, dl, batch>>
       ELSE /\ EndAttempt(FALSE, "index")
            /\ DropLocals
    /\ UNCHANGED <<stanzas, emitted, requests, config, mirror_ix, fs, fs0>>

\* url.rs 35-41 and 48-51: find_package, and the task of the download
InstallResolve ==
    /\ pc = "parsed"
    /\ LET rec == find_package(packages, config.package_name, config.architecture) IN
       IF rec # None
       THEN /\ query' = [name |-> config.package_name, arch |-> config.architecture]
            /\ found' = rec
            /\ downloads' = << Download(PackageUrl(config.mirrors[mirror_ix], rec[1].filename),
                                        config.root_dir, rec[1].md5sum) >>
            /\ dl' = <<NewTask>>
            /\ batch' = None
            /\ pc' = "download"
            /\ attempts' = Entered(Entered(attempts, "resolve"), "download")
            /\ exit_code' = exit_code
            /\ UNCHANGED <<content, packages, fetch>>
       ELSE /\ EndAttemptAfter(Entered(attempts, "resolve"), FALSE, "not found")
            /\ DropLocals
    /\ UNCHANGED <<stanzas, emitted, requests, config, mirror_ix, fs, fs0>>

\* url.rs 17-22 and 40-46: download_packages or download_package has returned
InstallDownloaded ==
    /\ pc = "download"
    /\ config # NoConfig
    /\ batch # None
    /\ EndAttemptAfter([attempts EXCEPT ![Len(attempts)].batch =
                                            IF IsNdk(config.package_name) THEN batch ELSE None],
                       batch[1].ok, IF batch[1].ok THEN "" ELSE "download")
    /\ IF batch[1].ok
       THEN /\ UNCHANGED <<content, packages, query, found, fetch>>
            /\ UNCHANGED <<downloads, dl, batch>>
       ELSE DropLocals
    /\ UNCHANGED <<stanzas, emitted, requests, config, mirror_ix, fs, fs0>>

MaxMirrors == 3

\* InstallConfig::new: Err unless the architecture is a known one
InstallConfigNew(package_name, mirrors, architecture, root_dir) ==
    IF architecture \notin ValidArchitectures THEN None
    ELSE Some([package_name |-> package_name, mirrors |-> mirrors,
               architecture |-> architecture, root_dir |-> root_dir])

InitInstall ==
    /\ pc = "loop"
    /\ \E n \in 1..MaxMirrors, name \in {<<"a">>, AndroidNdk \o <<"-","r","2","6","b">>} :
          config = InstallConfigNew(name, [k \in 1..n |-> Mirror(k)], Arm64, OutRel)[1]
    /\ mirror_ix = 0
    /\ attempts = <<>>
    /\ exit_code = None
    /\ fetch = NoFetch
    /\ NoDownloads
    /\ content = <<>>
    /\ stanzas = <<>>
    /\ packages = EmptyMap
    /\ emitted = <<>>
    /\ query = [name |-> <<>>, arch |-> <<>>]
    /\ found = None

NextInstall ==
    \/ InstallLoop
    \/ FetchClient
    \/ FetchSend
    \/ FetchResponse
    \/ FetchBody
    \/ FetchReturn
    \/ InstallParse
    \/ InstallResolve
    \/ \E i \in 1..Len(downloads) :
          \/ Start(i)
          \/ Response(i)
          \/ Content(i)
          \/ RunCreate(i)
          \/ Created(i)
          \/ RunWrite(i)
    \/ InstallDownloaded

SpecInstall == InitInstall /\ [][NextInstall]_vars

\* C10: the mirrors are tried in list order, each only after every mirror
\* before it was tried and failed; after a mirror has succeeded the loop is
\* over, and no request is ever sent to a mirror that was not tried.
C10_FirstSuccessWins ==
    config # NoConfig =>
        /\ \A k \in 1..Len(attempts) : attempts[k].mirror = k
        /\ \A k \in 1..(Len(attempts) - 1) : attempts[k].result = "failed"
        /\ Len(attempts) = mirror_ix
        /\ \A k \in 1..Len(attempts) : attempts[k].result = "ok" => pc = "exit"
        /\ ~IsNdk(config.package_name) =>
              \A r \in 1..Len(requests) :
                  \E k \in 1..Len(attempts) :
                      StartsWith(requests[r], config.mirrors[k] \o <<"/">>)

C10_Witness ==
    /\ pc = "exit"
    /\ Len(config.mirrors) = 3
    /\ Len(attempts) = 2
    /\ attempts[1].result = "failed"
    /\ attempts[1].why = "index"
    /\ attempts[2].result = "ok"
    /\ requests[Len(requests)] = PackageUrl(Mirror(2), <<"p","/","a">>)
    /\ FileAt(fs, Cwd \o << <<"o">>, <<"a">> >>) = Some(File(BodyA))


\* C11 as stated: when main is over and every mirror of the list was tried
\* and failed, the process status is not the status of a successful install
\* (main returns normally in both cases, which is status 0).
Exhausted ==
    /\ config # NoConfig
    /\ pc = "exit"
    /\ Len(attempts) = Len(config.mirrors)
    /\ \A k \in 1..Len(attempts) : attempts[k].result = "failed"
C11_ExhaustedExitsNonZero ==
    Exhausted => (exit_code # None /\ exit_code[1] # 0)


\* C12: the steps of an attempt are entered in the order fetch, parse,
\* resolve, download, each at most once (the fixed-artifact family enters
\* the batch download only); an attempt that failed on its index, on the lookup or
\* on the download stopped at that step, and the loop went on with the next
\* mirror if there is one; the k-th attempt is on the k-th mirror, so no
\* mirror is tried twice.
GeneralSteps == <<"fetch", "parse", "resolve", "download">>
StopsAt(why) ==
    CASE why = "index" -> 1
      [] why = "not found" -> 3
      [] why = "download" -> 4
C12_StepsForwardOncePerMirror ==
    config # NoConfig =>
        /\ Len(attempts) <= Len(config.mirrors)
        /\ \A k \in 1..Len(attempts) :
              LET a == attempts[k] IN
              /\ a.mirror = k
              /\ IF IsNdk(config.package_name)
                 THEN a.steps = <<"batch">>
                 ELSE /\ Len(a.steps) \in 1..4
                      /\ a.steps = SubSeq(GeneralSteps, 1, Len(a.steps))
              /\ a.result = "failed" =>
                    /\ a.why \in {"index", "not found", "download"}
                    /\ ~IsNdk(config.package_name) => Len(a.steps) = StopsAt(a.why)
                    /\ \/ k < Len(attempts)
                       \/ pc = "loop"
                       \/ pc = "exit" /\ k = Len(config.mirrors)
              /\ a.result = "trying" => k = Len(attempts) /\ pc \notin {"loop", "exit"}

C12_Witness ==
    /\ config # NoConfig
    /\ Len(config.mirrors) = 3
    /\ Len(attempts) = 3
    /\ attempts[1].why = "not found"
    /\ attempts[1].steps = <<"fetch", "parse", "resolve">>
    /\ attempts[2].why = "download"
    /\ attempts[2].steps = GeneralSteps
    /\ attempts[3].result = "trying"
    /\ attempts[3].steps = <<"fetch">>


\* C13 as stated: a call whose expected digest equals the digest of the
\* received body up to the letter case of its hex digits does not fail the
\* digest check.
LowerCase(s) ==
    [k \in 1..Len(s) |->
        IF \E n \in 1..16 : UpperHexDigits[n] = s[k]
        THEN HexDigits[CHOOSE n \in 1..16 : UpperHexDigits[n] = s[k]]
        ELSE s[k]]
EqualIgnoringCase(a, b) == LowerCase(a) = LowerCase(b)
C13_DigestComparedIgnoringCase ==
    pc = "download" =>
        \A i \in 1..Len(dl) :
            ( /\ dl[i].content # None
              /\ EqualIgnoringCase(LowerHex(Md5Compute(dl[i].content[1])),
                                   downloads[i].expected_md5) )
            => dl[i].result # Some(Err("MD5 checksum mismatch"))


\* C14 as stated: parsing the text download_packages_file returns gives the
\* mapping obtained by parsing the text of each retrieved component on its
\* own and merging the mappings in component order, a later one winning.
Merge(m1, m2) ==
    [k \in DOMAIN m1 \cup DOMAIN m2 |-> IF k \in DOMAIN m2 THEN m2[k] ELSE m1[k]]
RECURSIVE MergedFrom(_, _)
MergedFrom(got, i) ==
    IF i = 0 THEN EmptyMap
    ELSE IF got[i].ok
         THEN Merge(MergedFrom(got, i - 1), parse_packages_file(got[i].text))
         ELSE MergedFrom(got, i - 1)
C14_ConcatenationParsesAsMerge ==
    (pc = "fetched" /\ fetch.result # None /\ fetch.result[1].ok) =>
        parse_packages_file(fetch.result[1].text) = MergedFrom(fetch.got, Len(fetch.got))


\* C15 as stated: in an attempt for a name of the fixed-artifact family, a
\* task whose body was received with a success status is not failed by the
\* digest check, and the attempt does not fail on the digest.
C15_NoDigestCheckOnFixedArtifacts ==
    (config # NoConfig /\ IsNdk(config.package_name)) =>
        \A i \in 1..Len(dl) :
            dl[i].content # None => dl[i].result # Some(Err("MD5 checksum mismatch"))


\* C16: an attempt for a name that starts with android-ndk makes one call,
\* the batch download of the two fixed tasks: no index is fetched, nothing is
\* parsed or resolved, and the attempt succeeds exactly when the batch does;
\* an attempt for any other name never makes the batch call.
FixedFamily == StartsWith(config.package_name, AndroidNdk)
C16_FixedFamilyBypassesIndex ==
    config # NoConfig =>
        IF FixedFamily
        THEN /\ fetch = NoFetch
             /\ content = <<>>
             /\ packages = EmptyMap
             /\ found = None
             /\ downloads \in {<<>>, NdkDownloads(config.root_dir)}
             /\ \A r \in 1..Len(requests) :
                   \E t \in 1..2 : requests[r] = NdkDownloads(config.root_dir)[t].url
             /\ \A k \in 1..Len(attempts) :
                   /\ attempts[k].steps = <<"batch">>
                   /\ attempts[k].result = "trying" => downloads = NdkDownloads(config.root_dir)
                   /\ attempts[k].result # "trying" =>
                         /\ attempts[k].batch # None
                         /\ attempts[k].result = "ok" <=> attempts[k].batch[1].ok
        ELSE \A k \in 1..Len(attempts) :
                /\ attempts[k].batch = None
                /\ \A j \in 1..Len(attempts[k].steps) : attempts[k].steps[j] # "batch"
                /\ Len(downloads) <= 1

C16_Witness ==
    /\ config # NoConfig
    /\ FixedFamily
    /\ Len(attempts) = 2
    /\ attempts[1].result = "failed"
    /\ attempts[2].result = "failed"
    /\ attempts[2].steps = <<"batch">>
    /\ attempts[2].batch = Some([ok |-> FALSE, kind |-> "Failed to download packages",
                                  cause |-> Err("Status")])
    /\ Len(requests) = 4


\* C17 as stated: no record of the mapping parse_packages_file returns is
\* keyed by the empty string or has an empty package name.
C17_NoRecordWithEmptyName ==
    (pc = "parsed" /\ config = NoConfig) =>
        \A k \in DOMAIN packages : k # <<>> /\ packages[k].package # <<>>


\* C18: in the general case, the task of an attempt's download is made of
\* the attempt's own mirror and of the record found in the index fetched
\* from that mirror in this attempt: URL mirror/Filename, digest MD5sum; the
\* request sent is for that URL.
C18_DownloadFromTheResolvingMirror ==
    (config # NoConfig /\ ~FixedFamily /\ pc = "download") =>
        LET m == config.mirrors[Len(attempts)]
            index == fetch.result[1]
            rec == find_package(parse_packages_file(index.text),
                                config.package_name, config.architecture)
        IN /\ Len(attempts) = mirror_ix
           /\ fetch.mirror = m
           /\ index.ok
           /\ rec # None
           /\ downloads = << Download(m \o <<"/">> \o rec[1].filename,
                                      config.root_dir, rec[1].md5sum) >>
           /\ dl[1].pc \in {"sending", "reading", "creating"} =>
                 requests[Len(requests)] = m \o <<"/">> \o rec[1].filename

C18_Witness ==
    /\ config # NoConfig
    /\ pc = "download"
    /\ Len(attempts) = 2
    /\ attempts[1].why = "download"
    /\ fetch.got = <<Failure("status"), Text(TextArm2)>>
    /\ downloads[1].url = <<"m", "2", "/", "q", "/", "a">>
    /\ downloads[1].expected_md5 = Md5ABC
    /\ dl[1].pc = "sending"
    /\ \E r \in 1..Len(requests) : requests[r] = <<"m", "1", "/", "p", "/", "a">>


\* Lines that begin with whitespace: a space and a field, a tab and a
\* field, and a space alone.
SpaceLine == <<" ", "P","a","c","k","a","g","e",":"," ","z">>
TabLine == <<"\t", "V","e","r","s","i","o","n",":"," ","9">>
BlankLine == <<" ">>
IsContinuation(line) == line # <<>> /\ line[1] \in {" ", "\t"}
\* the lines ls with the line c after every line that is not empty
WithLineAfterEach(ls, c) ==
    LET NoLine == <<NL>>
        paired == [k \in 1..(2 * Len(ls)) |->
                      IF k % 2 = 1 THEN ls[(k + 1) \div 2]
                      ELSE IF ls[k \div 2] = <<>> THEN NoLine ELSE c]
    IN SelectSeq(paired, LAMBDA l : l # NoLine)
WithoutContinuations(ls) == SelectSeq(ls, LAMBDA l : ~IsContinuation(l))
ParsedLines(ls) == FinishStanza(ParseLines(ParseStart, ls, 1)).packages
RequiredOf(info) == [k \in DOMAIN info \cap {Required[j] : j \in 1..7} |-> info[k]]

\* C19 as stated: a line that begins with whitespace, a space or a tab,
\* starts no new field (the fields of the stanza are as before), changes no
\* required field, does not set the package name and does not end the
\* stanza; so the mapping is the same when such lines are added after the
\* lines of the stanzas, and when the continuation lines are taken out.
C19_WhitespaceLineStartsNoField ==
    (pc = "parsed" /\ config = NoConfig) =>
        LET ls == Lines(content) IN
        /\ ParsedLines(WithoutContinuations(ls)) = packages
        /\ \A c \in {SpaceLine, TabLine} :
              ParsedLines(WithLineAfterEach(ls, c)) = packages
        /\ LET st == ParseLines(ParseStart, ls, 1)
           IN \A c \in {SpaceLine, TabLine, BlankLine} :
                 /\ ParseLine(st, c).current_info = st.current_info
                 /\ ParseLine(st, c).current_package = st.current_package
                 /\ ParseLine(st, c).packages = st.packages

\* C19 amended: a line that begins with a space leaves the parser as it was.
\* A line that begins with a tab is read as a field line: with ": " in it, it
\* starts a field whose key begins with the tab, and that is all it does; it
\* changes neither the package name of the stanza nor any of its required
\* fields nor the mapping.  So the mapping is the same when lines of either
\* kind are added after the lines of the stanzas, and when the continuation
\* lines of the text are taken out.
C19_ContinuationLinesChangeNothing ==
    (pc = "parsed" /\ config = NoConfig) =>
        LET ls == Lines(content) IN
        /\ ParsedLines(WithoutContinuations(ls)) = packages
        /\ \A c \in {SpaceLine, TabLine} :
              ParsedLines(WithLineAfterEach(ls, c)) = packages
        /\ LET st == ParseLines(ParseStart, ls, 1)
               tab == ParseLine(st, TabLine)
           IN /\ ParseLine(st, SpaceLine) = st
              /\ ParseLine(st, BlankLine) = st
              /\ tab = [st EXCEPT !.current_info =
                           Insert(@, <<"\t", "V","e","r","s","i","o","n">>, <<"9">>)]
              /\ tab.current_info # st.current_info
              /\ RequiredOf(tab.current_info) = RequiredOf(st.current_info)

C19_Witness ==
    /\ pc = "parsed"
    /\ config = NoConfig
    /\ Len(stanzas) = 2
    /\ stanzas[1].extra
    /\ \E i \in 1..Len(Lines(content)) : Lines(content)[i] = <<" ","m","o","r","e">>
    /\ DOMAIN packages = {<<"a">>, <<"b">>}


(***************************************************************************)
(* The install when every call returns: main is sequential code, and every *)
(* HTTP call and every file operation it waits for comes back, so a step   *)
(* that can be taken is taken.                                             *)
(***************************************************************************)
SpecInstallFair == SpecInstall /\ WF_vars(NextInstall)

\* C20: every install comes to the end of main, after at most one attempt
\* per mirror, and then either one mirror (the last one tried) has succeeded
\* or every mirror of the list was tried and failed, never both.
SucceededOnSomeMirror ==
    /\ Len(attempts) >= 1
    /\ attempts[Len(attempts)].result = "ok"
    /\ \A k \in 1..(Len(attempts) - 1) : attempts[k].result = "failed"
Terminated ==
    /\ pc = "exit"
    /\ Len(attempts) <= Len(config.mirrors)
    /\ \A k \in 1..Len(attempts) : attempts[k].mirror = k
    /\ SucceededOnSomeMirror # Exhausted
C20_InstallTerminates == <>[]Terminated

C20_Witness ==
    /\ Terminated
    /\ Exhausted
    /\ Len(attempts) = 3
    /\ attempts[1].why = "index"
    /\ attempts[2].why = "not found"
    /\ attempts[3].why = "download"


\* C21: the stanzas that give no record leave the mapping as it would be
\* without them: the mapping is the one parsed from the text of the other
\* stanzas alone; the record of an earlier well-formed stanza of the same
\* name is still there, unmodified; and every record inserted is the record
\* of a well-formed stanza, field for field.
Dropped == (1..Len(stanzas)) \ WellFormedAt
C21_DroppedStanzaChangesNothing ==
    (pc = "parsed" /\ config = NoConfig) =>
        /\ packages = parse_packages_file(IndexText(SelectSeq(stanzas, WellFormed), 1))
        /\ \A i \in Dropped : \A j \in WellFormedAt :
              ( /\ j < i
                /\ HasField(stanzas[i], 1)
                /\ stanzas[j].name = stanzas[i].name
                /\ LastOfName(j) )
              => packages[stanzas[i].name] = RecordOf(stanzas[j])
        /\ \A k \in 1..Len(emitted) :
              \E j \in WellFormedAt : emitted[k] = RecordOf(stanzas[j])

C21_Witness ==
    /\ pc = "parsed"
    /\ config = NoConfig
    /\ Len(stanzas) = 2
    /\ WellFormedAt = {1}
    /\ stanzas[2].name = stanzas[1].name
    /\ stanzas[2].size = SizeNotDecimal
    /\ emitted = <<RecordOf(stanzas[1])>>
    /\ packages[stanzas[2].name].version = stanzas[1].ver


\* every File::create and every write the batch asked for has run, and none
\* of them failed
FileOpsOver ==
    \A i \in 1..Len(dl) :
        dl[i].op \in {None, Some([kind |-> "write", state |-> "ok"])}

\* the file at the destination of task i is the whole body received by one
\* task with that destination, and the body has the digest that task expects
HoldsOneWholeBody(i) ==
    \E j \in 1..Len(dl) :
        /\ Target(j) = Target(i)
        /\ dl[j].content # None
        /\ FileAt(fs, Target(i)) = Some(File(dl[j].content[1]))
        /\ LowerHex(Md5Compute(dl[j].content[1])) = downloads[j].expected_md5

\* C22 as stated: when download_packages has returned Ok and the file
\* operations of the batch have all run without a failure, every file a task
\* of the batch wrote to holds the whole body of one task with that
\* destination, with the digest that task expects, whatever the order in
\* which the blocking pool ran the creates and the writes, two tasks with
\* the same destination directory and the same URL basename included.
C22_SharedFileHoldsOneWholeBody ==
    (pc = "download" /\ batch = Some(Ok) /\ FileOpsOver) =>
        \A i \in 1..Len(dl) : HoldsOneWholeBody(i)

=============================================================================
